---- MODULE Spec2Model ----
(***************************************************************************)
(* Poll-detect-notify loop of the homework bot (src/homework.py).          *)
(*                                                                         *)
(* Python values are modelled as records of one fixed shape per kind:      *)
(*   - a string built by an f-string is the record of its template and of  *)
(*     the values it embeds (Msg), so two strings are equal exactly when   *)
(*     template and embedded values are equal;                             *)
(*   - a decoded JSON payload is a record of its type, its keys and the    *)
(*     values under them (Payload);                                        *)
(*   - an exception is the record of its class and of str(error).          *)
(***************************************************************************)
EXTENDS Integers, Sequences, FiniteSets, TLC

\* ------------------------------------------------------------------ bounds
\* largest timestamp the clock and the server's current_date take
MaxDate == 1

\* --------------------------------------------------------------- constants
RETRY_PERIOD == 600
HTTP_OK == 200

\* os.getenv gives None for an unset variable
None == "<None>"
EnvValues == {None, "", "secret"}

\* truth value of a str-or-None, as all() tests it
Truthy(v) == v # None /\ v # ""

\* the verdict texts are Cyrillic in the source; each is written here by an
\* ASCII transliteration, one distinct string per source string
HOMEWORK_VERDICTS ==
    [s \in {"approved", "reviewing", "rejected"} |->
        CASE s = "approved"  -> "Rabota proverena: revyueru vsyo ponravilos. Ura!"
          [] s = "reviewing" -> "Rabota vzyata na proverku revyuerom."
          [] s = "rejected"  -> "Rabota proverena: u revyuera est zamechaniya."]

\* ------------------------------------------------------------ input domains
Dates == 0 .. MaxDate
HomeworkNames == {"proj1", "proj2"}
StatusCodes == {"approved", "reviewing", "rejected", "on_hold"}

\* a homework record of the payload; an absent key has has_* = FALSE, value ""
NoHomework == [has_name |-> FALSE, homework_name |-> "",
               has_status |-> FALSE, status |-> ""]
Homeworks ==
    { [has_name |-> hn, homework_name |-> n, has_status |-> hs, status |-> s] :
        hn \in BOOLEAN, n \in HomeworkNames \cup {""},
        hs \in BOOLEAN, s \in StatusCodes \cup {""} }
HomeworkRecords ==
    { h \in Homeworks :
        /\ (h.has_name <=> h.homework_name # "")
        /\ (h.has_status <=> h.status # "")
        /\ (h.homework_name # "proj1" => h.status = "approved") }

\* the record the API puts behind the newest one in a two-element list
OlderHomework == [has_name |-> TRUE, homework_name |-> "proj2",
                  has_status |-> TRUE, status |-> "rejected"]

HomeworkLists ==
    {<<>>} \cup { <<h>> : h \in HomeworkRecords }
           \cup { <<h, OlderHomework>> : h \in {g \in HomeworkRecords :
                                                   g.homework_name = "proj1"
                                                   /\ g.status = "approved"} }

\* a decoded JSON value: its Python type and, for a dict, its keys
NoPayload == [type |-> "NoneType", has_homeworks |-> FALSE,
              homeworks_type |-> "", homeworks |-> <<>>,
              has_current_date |-> FALSE, current_date |-> 0]
EmptyDict == [NoPayload EXCEPT !.type = "dict"]
WellFormedPayloads ==
    { [type |-> "dict", has_homeworks |-> TRUE, homeworks_type |-> "list",
       homeworks |-> hws, has_current_date |-> TRUE, current_date |-> cd] :
        hws \in HomeworkLists, cd \in Dates }
MalformedPayloads ==
    { [NoPayload EXCEPT !.type = "list"],
      EmptyDict,
      [EmptyDict EXCEPT !.has_current_date = TRUE, !.current_date = MaxDate],
      [EmptyDict EXCEPT !.has_homeworks = TRUE, !.homeworks_type = "list"],
      [EmptyDict EXCEPT !.has_homeworks = TRUE, !.homeworks_type = "dict",
                        !.has_current_date = TRUE] }
Payloads == WellFormedPayloads \cup MalformedPayloads

\* what requests.get does: raise, or return a response object
TransportErrors == {"timeout", "refused"}
HttpResponses ==
    { [raises |-> "", status_code |-> HTTP_OK, decodable |-> TRUE,
       text |-> "json", json |-> p] : p \in Payloads }
    \cup { [raises |-> "", status_code |-> c, decodable |-> FALSE,
            text |-> "<html>", json |-> NoPayload] : c \in {HTTP_OK, 500} }
    \cup { [raises |-> "", status_code |-> 500, decodable |-> TRUE,
            text |-> "json", json |-> EmptyDict] }
NoOutcome == [raises |-> "", status_code |-> 0, decodable |-> FALSE,
              text |-> "", json |-> NoPayload]
RequestOutcomes ==
    HttpResponses
    \cup { [raises |-> e, status_code |-> 0, decodable |-> FALSE,
            text |-> "", json |-> NoPayload] : e \in TransportErrors }

\* ------------------------------------------------------------------ strings
\* a string: its template and the values the template embeds
EmptyMsg == [prefix |-> "", tmpl |-> "", name |-> "", verdict |-> "",
             ts |-> 0, code |-> 0, detail |-> "",
             payload |-> NoPayload, homework |-> NoHomework]

\* a report, the dict {'name': ..., 'output': ...} of main()
EmptyReport == [name |-> "", output |-> EmptyMsg]

\* an exception: its class and str(error)
NoError == [cls |-> "", msg |-> EmptyMsg]
Raise(cls, msg) == [cls |-> cls, msg |-> msg]


\* a result of a call: the exception it raised (NoError if none) and its value
Returned(v) == [exc |-> NoError, value |-> v]
Raised(cls, msg, v) == [exc |-> Raise(cls, msg), value |-> v]

\* a Python value handed to the bot as text, by its type: pytype "str" with
\* the string, or pytype "dict" with the report dict
DictValue(r) == [pytype |-> "dict", str |-> EmptyMsg, dict |-> r]
NoValue == [pytype |-> "NoneType", str |-> EmptyMsg, dict |-> EmptyReport]

\* ------------------------------------------------------------- send_message
\* bot.send_message(chat_id=TELEGRAM_CHAT_ID, text=message); delivered tells
\* whether the collaborator returned or raised telegram.error.TelegramError
NoCall == [chat_id |-> "", text |-> NoValue, delivered |-> FALSE]

\* send_message raising MessageNotSent also after the bot took the message
send_message_RaiseAfterSend(chat_id, message, delivered) ==
    Raised("MessageNotSent",
           [EmptyMsg EXCEPT !.tmpl = "Soobshchenie ne udalos otpravit"],
           [chat_id |-> chat_id, text |-> message, delivered |-> delivered])

send_message(chat_id, message, delivered) ==
    LET call == [chat_id |-> chat_id, text |-> message, delivered |-> delivered]
    IN  IF delivered
        THEN Returned(call)
        ELSE Raised("MessageNotSent",
                    [EmptyMsg EXCEPT !.tmpl = "Soobshchenie ne udalos otpravit"],
                    call)

\* ----------------------------------------------------------- get_api_answer
\* get_api_answer decoding the body before it looks at the status code
get_api_answer_DecodeFirst(timestamp, outcome) ==
    IF outcome.raises # ""
    THEN Raised("ConnectionError",
                [EmptyMsg EXCEPT
                    !.tmpl = "Vo vremya podklyucheniya k endpointu {url} proizoshla nepredvidennaya oshibka: {error} headers = {headers}; params = {params};",
                    !.detail = outcome.raises, !.ts = timestamp],
                NoPayload)
    ELSE IF ~outcome.decodable
    THEN Raised("JSONDecodeError",
                [EmptyMsg EXCEPT !.tmpl = "Expecting value: {text}",
                                 !.detail = outcome.text],
                NoPayload)
    ELSE IF outcome.status_code # HTTP_OK
    THEN Raised("WrongAPIResponse",
                [EmptyMsg EXCEPT
                    !.tmpl = "Otvet servera ne yavlyaetsya uspeshnym: request params = {request_params}; http_code = {status_code}; reason = {reason}; content = {text}",
                    !.ts = timestamp, !.code = outcome.status_code,
                    !.detail = outcome.text],
                NoPayload)
    ELSE Returned(outcome.json)

get_api_answer(timestamp, outcome) ==
    IF outcome.raises # ""
    THEN Raised("ConnectionError",
                [EmptyMsg EXCEPT
                    !.tmpl = "Vo vremya podklyucheniya k endpointu {url} proizoshla nepredvidennaya oshibka: {error} headers = {headers}; params = {params};",
                    !.detail = outcome.raises, !.ts = timestamp],
                NoPayload)
    ELSE IF outcome.status_code # HTTP_OK
    THEN Raised("WrongAPIResponse",
                [EmptyMsg EXCEPT
                    !.tmpl = "Otvet servera ne yavlyaetsya uspeshnym: request params = {request_params}; http_code = {status_code}; reason = {reason}; content = {text}",
                    !.ts = timestamp, !.code = outcome.status_code,
                    !.detail = outcome.text],
                NoPayload)
    ELSE IF ~outcome.decodable
    THEN \* response.json() raises; nothing in get_api_answer catches it
         Raised("JSONDecodeError",
                [EmptyMsg EXCEPT !.tmpl = "Expecting value: {text}",
                                 !.detail = outcome.text],
                NoPayload)
    ELSE Returned(outcome.json)

\* ----------------------------------------------------------- check_response
\* check_response without the test of the type of homeworks
check_response_NoListCheck(response) ==
    IF response.type # "dict"
    THEN Raised("TypeError",
                [EmptyMsg EXCEPT !.tmpl = "Oshibka v tipe otveta API"], <<>>)
    ELSE IF ~response.has_homeworks \/ ~response.has_current_date
    THEN Raised("WrongAPIResponse",
                [EmptyMsg EXCEPT
                    !.tmpl = "Ya.Praktikum vernul neozhidannuyu strukturu json: {response}",
                    !.payload = response], <<>>)
    ELSE Returned(response.homeworks)

\* check_response with 'and' between the two key tests
check_response_KeysAnd(response) ==
    IF response.type # "dict"
    THEN Raised("TypeError",
                [EmptyMsg EXCEPT !.tmpl = "Oshibka v tipe otveta API"], <<>>)
    ELSE IF ~response.has_homeworks /\ ~response.has_current_date
    THEN Raised("WrongAPIResponse",
                [EmptyMsg EXCEPT
                    !.tmpl = "Ya.Praktikum vernul neozhidannuyu strukturu json: {response}",
                    !.payload = response], <<>>)
    ELSE IF response.homeworks_type # "list"
    THEN Raised("TypeError",
                [EmptyMsg EXCEPT
                    !.tmpl = "Ya.Praktikum vernul neozhidannyy homeworks: {response}",
                    !.payload = response], <<>>)
    ELSE Returned(response.homeworks)

check_response(response) ==
    IF response.type # "dict"
    THEN Raised("TypeError",
                [EmptyMsg EXCEPT !.tmpl = "Oshibka v tipe otveta API"], <<>>)
    ELSE IF ~response.has_homeworks \/ ~response.has_current_date
    THEN Raised("WrongAPIResponse",
                [EmptyMsg EXCEPT
                    !.tmpl = "Ya.Praktikum vernul neozhidannuyu strukturu json: {response}",
                    !.payload = response], <<>>)
    ELSE IF response.homeworks_type # "list"
    THEN Raised("TypeError",
                [EmptyMsg EXCEPT
                    !.tmpl = "Ya.Praktikum vernul neozhidannyy homeworks: {response}",
                    !.payload = response], <<>>)
    ELSE Returned(response.homeworks)

\* ------------------------------------------------------------- parse_status
StatusMsg(homework_name, verdict) ==
    [EmptyMsg EXCEPT
        !.tmpl = "Izmenilsya status proverki raboty \"{homework_name}\". {verdict}",
        !.name = homework_name, !.verdict = verdict]

\* parse_status taking a default verdict for a status it does not know
parse_status_DefaultVerdict(homework) ==
    IF ~homework.has_name
    THEN Raised("WrongAPIResponse",
                [EmptyMsg EXCEPT
                    !.tmpl = "Ya.Praktikum vernul json bez homework_name: {homework}",
                    !.homework = homework], EmptyMsg)
    ELSE IF ~homework.has_status
    THEN Raised("WrongAPIResponse",
                [EmptyMsg EXCEPT
                    !.tmpl = "Ya.Praktikum vernul json bez status: {homework}",
                    !.homework = homework], EmptyMsg)
    ELSE Returned(StatusMsg(homework.homework_name,
                            IF homework.status \in DOMAIN HOMEWORK_VERDICTS
                            THEN HOMEWORK_VERDICTS[homework.status]
                            ELSE HOMEWORK_VERDICTS["reviewing"]))

parse_status(homework) ==
    IF ~homework.has_name
    THEN Raised("WrongAPIResponse",
                [EmptyMsg EXCEPT
                    !.tmpl = "Ya.Praktikum vernul json bez homework_name: {homework}",
                    !.homework = homework], EmptyMsg)
    ELSE IF ~homework.has_status
    THEN Raised("WrongAPIResponse",
                [EmptyMsg EXCEPT
                    !.tmpl = "Ya.Praktikum vernul json bez status: {homework}",
                    !.homework = homework], EmptyMsg)
    ELSE IF homework.status \notin DOMAIN HOMEWORK_VERDICTS
    THEN Raised("StatusNotExpected",
                [EmptyMsg EXCEPT
                    !.tmpl = "Ya.Praktikum vernul neozhidannyy status: {status}",
                    !.detail = homework.status], EmptyMsg)
    ELSE Returned(StatusMsg(homework.homework_name,
                            HOMEWORK_VERDICTS[homework.status]))

\* -------------------------------------------------------------- check_tokens
\* check_tokens with any() in place of all()
check_tokens_any(practicum_token, telegram_chat_id, telegram_token) ==
    Truthy(practicum_token) \/ Truthy(telegram_chat_id) \/ Truthy(telegram_token)

check_tokens(practicum_token, telegram_chat_id, telegram_token) ==
    Truthy(practicum_token) /\ Truthy(telegram_chat_id) /\ Truthy(telegram_token)


\* ---------------------------------------------------------------- main: try
NoWorkMsg(current_timestamp) ==
    [EmptyMsg EXCEPT
        !.tmpl = "Za period ot {current_timestamp} do nastoyashchego momenta domashnikh rabot net.",
        !.ts = current_timestamp]

FailureMsg(error) == [error.msg EXCEPT !.prefix = "Sboy v rabote programmy: "]

\* the state main() is left in by a block: the exception leaving the block,
\* the three locals, the calls made on the bot, and whether line 207 compared
BlockResult(exc, ts, cur, prev, calls, compared) ==
    [exc |-> exc, current_timestamp |-> ts, current_report |-> cur,
     prev_report |-> prev, calls |-> calls, compared |-> compared]

\* SendIfChanged without the comparison: every report is sent
SendIfChanged_Always(ts, cur, prev, chat_id, delivered) ==
    LET snd == send_message(chat_id, DictValue(cur), delivered)
    IN  IF snd.exc # NoError
        THEN BlockResult(snd.exc, ts, cur, prev, <<snd.value>>, TRUE)
        ELSE BlockResult(NoError, ts, cur, cur, <<snd.value>>, TRUE)

\* SendIfChanged comparing the homework names only
SendIfChanged_ByName(ts, cur, prev, chat_id, delivered) ==
    IF cur.name # prev.name
    THEN LET snd == send_message(chat_id, DictValue(cur), delivered)
         IN  IF snd.exc # NoError
             THEN BlockResult(snd.exc, ts, cur, prev, <<snd.value>>, TRUE)
             ELSE BlockResult(NoError, ts, cur, cur, <<snd.value>>, TRUE)
    ELSE BlockResult(NoError, ts, cur, prev, <<>>, TRUE)

\* SendIfChanged overwriting prev_report before the send is known to succeed
SendIfChanged_OverwriteFirst(ts, cur, prev, chat_id, delivered) ==
    IF cur # prev
    THEN LET snd == send_message(chat_id, DictValue(cur), delivered)
         IN  BlockResult(snd.exc, ts, cur, cur, <<snd.value>>, TRUE)
    ELSE BlockResult(NoError, ts, cur, prev, <<>>, TRUE)

\* lines 207-211
SendIfChanged(ts, cur, prev, chat_id, delivered) ==
    IF cur # prev
    THEN LET snd == send_message(chat_id, DictValue(cur), delivered)
         IN  IF snd.exc # NoError
             THEN BlockResult(snd.exc, ts, cur, prev, <<snd.value>>, TRUE)
             ELSE BlockResult(NoError, ts, cur, cur, <<snd.value>>, TRUE)
    ELSE BlockResult(NoError, ts, cur, prev, <<>>, TRUE)

\* lines 199-206
BuildReport(ts, cur, prev, new_homeworks, chat_id, delivered) ==
    IF new_homeworks # <<>>
    THEN IF ~new_homeworks[1].has_name
         THEN BlockResult(Raise("KeyError",
                                [EmptyMsg EXCEPT !.tmpl = "'homework_name'"]),
                          ts, cur, prev, <<>>, FALSE)
         ELSE LET named == [cur EXCEPT !.name = new_homeworks[1].homework_name]
                  parsed == parse_status(new_homeworks[1])
              IN  IF parsed.exc # NoError
                  THEN BlockResult(parsed.exc, ts, named, prev, <<>>, FALSE)
                  ELSE SendIfChanged(ts, [named EXCEPT !.output = parsed.value],
                                     prev, chat_id, delivered)
    ELSE SendIfChanged(ts, [cur EXCEPT !.output = NoWorkMsg(ts)],
                       prev, chat_id, delivered)

\* lines 196-211: the body of the try statement
TryBody(ts, cur, prev, chat_id, outcome, delivered) ==
    LET answer == get_api_answer(ts, outcome)
    IN  IF answer.exc # NoError
        THEN BlockResult(answer.exc, ts, cur, prev, <<>>, FALSE)
        ELSE IF answer.value.type # "dict"
        THEN \* response.get on a value that is not a dict
             BlockResult(Raise("AttributeError",
                               [EmptyMsg EXCEPT
                                   !.tmpl = "'{type}' object has no attribute 'get'",
                                   !.detail = answer.value.type]),
                         ts, cur, prev, <<>>, FALSE)
        ELSE LET response == answer.value
                 cursor == IF response.has_current_date
                           THEN response.current_date ELSE ts
                 checked == check_response(response)
             IN  IF checked.exc # NoError
                 THEN BlockResult(checked.exc, cursor, cur, prev, <<>>, FALSE)
                 ELSE BuildReport(cursor, cur, prev, checked.value,
                                  chat_id, delivered)

\* lines 212-218: the body of the except clause
ExceptBody(ts, cur, prev, chat_id, error, delivered) ==
    LET failed == [cur EXCEPT !.output = FailureMsg(error)]
    IN  IF failed # prev
        THEN LET snd == send_message(chat_id, DictValue(failed), delivered)
             IN  IF snd.exc # NoError
                 THEN BlockResult(snd.exc, ts, failed, prev, <<snd.value>>, FALSE)
                 ELSE BlockResult(NoError, ts, failed, failed, <<snd.value>>, FALSE)
        ELSE BlockResult(NoError, ts, failed, prev, <<>>, FALSE)

\* line 212: 'except Exception' catches the classes derived from Exception;
\* KeyboardInterrupt and SystemExit derive from BaseException only
Interrupts == {"KeyboardInterrupt", "SystemExit"}

\* the except clause with a bare 'except:'
Catches_All(cls) == TRUE

Catches(cls) == cls \notin Interrupts

\* lines 89-93: the keyword arguments of requests.get hold no timeout
REQUEST_HAS_TIMEOUT == FALSE

\* a call of get_api_answer, check_response or parse_status on its own
NoFnCall == [fn |-> "", timestamp |-> 0, outcome |-> NoOutcome,
             response |-> NoPayload, homework |-> NoHomework,
             exc |-> NoError, payload |-> NoPayload, homeworks |-> <<>>,
             text |-> EmptyMsg]

\* -------------------------------------------------------------------- state
VARIABLES
    PRACTICUM_TOKEN, TELEGRAM_TOKEN, TELEGRAM_CHAT_ID,  \* module globals
    pc,                 \* where main() is
    bot,                \* token of the constructed telegram.Bot, None before
    current_timestamp, current_report, prev_report,     \* locals of main()
    error,              \* exception caught by the except clause
    raising,            \* exception leaving the try statement
    exit_status,        \* <<>> while running, else <<the process exit status>>
    last_delivered,     \* bot side: text of the last message it delivered
    iter,               \* record of the running iteration
    prev_iter,          \* record of the iteration before it
    call                \* a call of one function on its own: inputs, result

vars == <<PRACTICUM_TOKEN, TELEGRAM_TOKEN, TELEGRAM_CHAT_ID, pc, bot,
          current_timestamp, current_report, prev_report, error, raising,
          exit_status, last_delivered, iter, prev_iter, call>>

globals == <<PRACTICUM_TOKEN, TELEGRAM_TOKEN, TELEGRAM_CHAT_ID>>

\* what one iteration did: how its fetch ended, the first homework record of
\* a validated response, the report line 207 compared (reached tells whether
\* it got there), the calls made on the bot, the cursor and the prev_report
\* it started with, the class the except clause caught, the time slept
FetchKind(outcome) ==
    IF outcome.raises # "" THEN "transport"
    ELSE IF outcome.status_code # HTTP_OK THEN "http"
    ELSE IF ~outcome.decodable THEN "decode"
    ELSE "ok"

FirstRecord(outcome) ==
    LET answer == get_api_answer(0, outcome)
    IN  IF answer.exc = NoError /\ answer.value.type = "dict"
           /\ check_response(answer.value).exc = NoError
           /\ answer.value.homeworks # <<>>
        THEN answer.value.homeworks[1] ELSE NoHomework

\* whether check_response accepted the response of the fetch
Validated(outcome) ==
    LET answer == get_api_answer(0, outcome)
    IN  /\ answer.exc = NoError
        /\ answer.value.type = "dict"
        /\ check_response(answer.value).exc = NoError

NoIter == [fetch |-> "", validated |-> FALSE, first |-> NoHomework,
           reached |-> FALSE, report |-> EmptyReport, calls |-> <<>>,
           cursor |-> 0, last |-> EmptyReport, caught |-> "", slept |-> 0]
NewIter(cursor, last) == [NoIter EXCEPT !.cursor = cursor, !.last = last]

Init ==
    /\ PRACTICUM_TOKEN \in EnvValues
    /\ TELEGRAM_TOKEN \in EnvValues
    /\ TELEGRAM_CHAT_ID \in EnvValues
    /\ pc = "start"
    /\ bot = None
    /\ current_timestamp = 0
    /\ current_report = EmptyReport
    /\ prev_report = EmptyReport
    /\ error = NoError
    /\ raising = NoError
    /\ exit_status = <<>>
    /\ last_delivered = NoValue
    /\ iter = NoIter
    /\ prev_iter = NoIter
    /\ call = NoFnCall

\* lines 180-192
Start ==
    /\ pc = "start"
    /\ IF ~check_tokens(PRACTICUM_TOKEN, TELEGRAM_CHAT_ID, TELEGRAM_TOKEN)
       THEN /\ pc' = "exited"
            /\ exit_status' = <<1>>
            /\ UNCHANGED <<bot, current_timestamp, iter>>
       ELSE /\ pc' = "try"
            /\ bot' = TELEGRAM_TOKEN
            /\ \E now \in Dates :
                 /\ current_timestamp' = now
                 /\ iter' = NewIter(now, EmptyReport)
            /\ UNCHANGED exit_status
    /\ current_report' = EmptyReport
    /\ prev_report' = EmptyReport
    /\ UNCHANGED <<globals, error, raising, last_delivered, prev_iter, call>>

Delivered(calls, last) ==
    IF calls # <<>> /\ calls[Len(calls)].delivered
    THEN calls[Len(calls)].text ELSE last

\* lines 195-211
Try ==
    /\ pc = "try"
    /\ \E outcome \in RequestOutcomes, delivered \in BOOLEAN :
         LET r == TryBody(current_timestamp, current_report, prev_report,
                          TELEGRAM_CHAT_ID, outcome, delivered)
         IN  /\ current_timestamp' = r.current_timestamp
             /\ current_report' = r.current_report
             /\ prev_report' = r.prev_report
             /\ error' = r.exc
             /\ pc' = IF r.exc # NoError THEN "except" ELSE "finally"
             /\ last_delivered' = Delivered(r.calls, last_delivered)
             /\ iter' = [iter EXCEPT !.fetch = FetchKind(outcome),
                                     !.validated = Validated(outcome),
                                     !.first = FirstRecord(outcome),
                                     !.reached = r.compared,
                                     !.report = IF r.compared
                                                THEN r.current_report
                                                ELSE EmptyReport,
                                     !.calls = r.calls]
    /\ UNCHANGED <<globals, bot, raising, exit_status, prev_iter, call>>

\* lines 212-218
Except ==
    /\ pc = "except"
    /\ \E delivered \in BOOLEAN :
         LET r == ExceptBody(current_timestamp, current_report, prev_report,
                             TELEGRAM_CHAT_ID, error, delivered)
         IN  /\ current_report' = r.current_report
             /\ prev_report' = r.prev_report
             /\ raising' = r.exc
             /\ last_delivered' = Delivered(r.calls, last_delivered)
             /\ iter' = [iter EXCEPT !.calls = iter.calls \o r.calls,
                                     !.caught = error.cls]
    /\ error' = NoError
    /\ pc' = "finally"
    /\ UNCHANGED <<globals, bot, current_timestamp, exit_status, prev_iter,
                   call>>

\* the sleep as the last statement of the try block instead of a finally
\* clause: an iteration that raised does not sleep
Finally_SleepOnSuccess ==
    /\ pc = "finally"
    /\ IF raising # NoError
       THEN /\ pc' = "crashed"
            /\ exit_status' = <<1>>
            /\ UNCHANGED <<iter, prev_iter>>
       ELSE /\ pc' = "try"
            /\ prev_iter' = [iter EXCEPT !.slept =
                                IF iter.caught = ""
                                THEN iter.slept + RETRY_PERIOD ELSE iter.slept]
            /\ iter' = NewIter(current_timestamp, prev_report)
            /\ UNCHANGED exit_status
    /\ UNCHANGED <<globals, bot, current_timestamp, current_report,
                   prev_report, error, raising, last_delivered, call>>

\* lines 219-220 and the end of the try statement: sleep, then either the
\* next iteration or the exception leaves main()
Finally ==
    /\ pc = "finally"
    /\ IF raising # NoError
       THEN /\ pc' = "crashed"
            /\ exit_status' = <<1>>
            /\ iter' = [iter EXCEPT !.slept = iter.slept + RETRY_PERIOD]
            /\ UNCHANGED prev_iter
       ELSE /\ pc' = "try"
            /\ prev_iter' = [iter EXCEPT !.slept = iter.slept + RETRY_PERIOD]
            /\ iter' = NewIter(current_timestamp, prev_report)
            /\ UNCHANGED exit_status
    /\ UNCHANGED <<globals, bot, current_timestamp, current_report,
                   prev_report, error, raising, last_delivered, call>>

\* lines 89-101: requests.get is called with url, headers and params and no
\* timeout, and requests waits without limit when none is given: the call
\* may never return
Hang ==
    /\ pc = "try"
    /\ ~REQUEST_HAS_TIMEOUT
    /\ pc' = "blocked"
    /\ UNCHANGED <<globals, bot, current_timestamp, current_report,
                   prev_report, error, raising, exit_status, last_delivered,
                   iter, prev_iter, call>>

\* KeyboardInterrupt or SystemExit raised while main() is in the loop: in the
\* try block (waiting in requests.get) it goes past 'except Exception' to the
\* finally clause, in the except clause it leaves it for the finally clause,
\* in the finally clause it cuts the sleep short and leaves main()
Interrupt ==
    /\ pc \in {"try", "except", "finally"}
    /\ \E cls \in Interrupts :
         LET exc == Raise(cls, EmptyMsg)
         IN  CASE pc = "try" ->
                    IF Catches(cls)
                    THEN /\ error' = exc
                         /\ pc' = "except"
                         /\ UNCHANGED <<raising, exit_status>>
                    ELSE /\ raising' = exc
                         /\ pc' = "finally"
                         /\ UNCHANGED <<error, exit_status>>
               [] pc = "except" ->
                    /\ raising' = exc
                    /\ error' = NoError
                    /\ pc' = "finally"
                    /\ UNCHANGED exit_status
               [] pc = "finally" ->
                    /\ raising' = exc
                    /\ pc' = "crashed"
                    /\ exit_status' = <<1>>
                    /\ UNCHANGED error
    /\ UNCHANGED <<globals, bot, current_timestamp, current_report,
                   prev_report, last_delivered, iter, prev_iter, call>>

Next == Start \/ Try \/ Except \/ Finally \/ Hang \/ Interrupt

\* ------------------------------------------- the functions called on their own
\* inputs of the single calls: every record with or without either key, every
\* shape of the payload, every status code with a body that decodes or not
AllHomeworkRecords ==
    { h \in Homeworks : /\ (h.has_name <=> h.homework_name # "")
                        /\ (h.has_status <=> h.status # "") }
AllHomeworkLists ==
    {<<>>} \cup { <<h>> : h \in AllHomeworkRecords }
           \cup { <<h, OlderHomework>> : h \in HomeworkRecords }
AllPayloads ==
    { p \in [type : {"dict"}, has_homeworks : BOOLEAN,
             homeworks_type : {"", "list", "dict", "str"},
             homeworks : AllHomeworkLists,
             has_current_date : BOOLEAN, current_date : Dates] :
        /\ (p.has_homeworks <=> p.homeworks_type # "")
        /\ (p.homeworks_type # "list" => p.homeworks = <<>>)
        /\ (~p.has_current_date => p.current_date = 0) }
    \cup { [NoPayload EXCEPT !.type = t] : t \in {"list", "str", "NoneType"} }
AllRequestOutcomes ==
    RequestOutcomes
    \cup { [raises |-> "", status_code |-> c, decodable |-> d,
            text |-> IF d THEN "json" ELSE "<html>",
            json |-> IF d THEN EmptyDict ELSE NoPayload] :
            c \in {HTTP_OK, 404, 500}, d \in BOOLEAN }

FnInit ==
    /\ PRACTICUM_TOKEN = "secret"
    /\ TELEGRAM_TOKEN = "secret"
    /\ TELEGRAM_CHAT_ID = "secret"
    /\ pc = "start"
    /\ bot = None
    /\ current_timestamp = 0
    /\ current_report = EmptyReport
    /\ prev_report = EmptyReport
    /\ error = NoError
    /\ raising = NoError
    /\ exit_status = <<>>
    /\ last_delivered = NoValue
    /\ iter = NoIter
    /\ prev_iter = NoIter
    /\ call = NoFnCall

main_vars == <<globals, pc, bot, current_timestamp, current_report,
               prev_report, error, raising, exit_status, last_delivered,
               iter, prev_iter>>

CallGetApiAnswer ==
    /\ \E timestamp \in Dates, outcome \in AllRequestOutcomes :
         LET r == get_api_answer(timestamp, outcome)
         IN  call' = [NoFnCall EXCEPT !.fn = "get_api_answer",
                                      !.timestamp = timestamp,
                                      !.outcome = outcome,
                                      !.exc = r.exc, !.payload = r.value]
    /\ UNCHANGED main_vars

CallCheckResponse ==
    /\ \E response \in AllPayloads :
         LET r == check_response(response)
         IN  call' = [NoFnCall EXCEPT !.fn = "check_response",
                                      !.response = response,
                                      !.exc = r.exc, !.homeworks = r.value]
    /\ UNCHANGED main_vars

CallParseStatus ==
    /\ \E homework \in AllHomeworkRecords :
         LET r == parse_status(homework)
         IN  call' = [NoFnCall EXCEPT !.fn = "parse_status",
                                      !.homework = homework,
                                      !.exc = r.exc, !.text = r.value]
    /\ UNCHANGED main_vars

FnNext == CallGetApiAnswer \/ CallCheckResponse \/ CallParseStatus

FnSpec == FnInit /\ [][FnNext]_vars

Spec == Init /\ [][Next]_vars


\* ================================================================== claims
InLoop == pc \in {"try", "except", "finally"}
IterationDone == pc \in {"finally", "crashed"}

IsStatusReport(report) == report.output.tmpl = StatusMsg("", "").tmpl
IsNoWorkReport(report) == report.output.tmpl = NoWorkMsg(0).tmpl
IsFailureReport(report) == report.output.prefix = FailureMsg(NoError).prefix

\* the calls of a sequence that delivered the report
DeliveriesOf(calls, report) ==
    { i \in 1 .. Len(calls) :
        calls[i].delivered /\ calls[i].text = DictValue(report) }

\* C1: once the poll loop is entered no failure terminates it: no exception
\* leaves the try statement and main() never ends with an exception.
C1_LoopNeverDies ==
    raising.cls \notin Interrupts =>
        /\ raising = NoError
        /\ pc # "crashed"

\* C2 (as stated): two consecutive iterations that produce the same report
\* send exactly one notification carrying it over the two iterations.
SameReportTwice ==
    /\ IterationDone
    /\ prev_iter.reached /\ iter.reached
    /\ IsStatusReport(iter.report)
    /\ prev_iter.report = iter.report

C2_ExactlyOneOverTwo ==
    SameReportTwice =>
        Cardinality(DeliveriesOf(prev_iter.calls \o iter.calls, iter.report)) = 1

\* C2 (amended): two consecutive iterations that produce the same report
\* deliver at most one notification carrying it over the two iterations, and
\* the second iteration makes no call on the bot when the report is the last
\* one delivered.
C2_AtMostOneOverTwo ==
    SameReportTwice =>
        /\ Cardinality(DeliveriesOf(prev_iter.calls \o iter.calls,
                                    iter.report)) <= 1
        /\ (iter.last = iter.report => iter.calls = <<>>)

C2_Witness ==
    /\ SameReportTwice
    /\ DeliveriesOf(prev_iter.calls, iter.report) = {1}
    /\ iter.calls = <<>>

\* C3: a status fetched as the first record of a validated response and not
\* delivered stays within reach of the later polls: the cursor the next fetch
\* uses has not moved past the one the status was fetched with.
C3_NeverMissHomework ==
    ( /\ IterationDone
      /\ iter.reached /\ IsStatusReport(iter.report)
      /\ iter.last # iter.report
      /\ DeliveriesOf(iter.calls, iter.report) = {}
      /\ raising.cls \notin Interrupts )
    => current_timestamp <= iter.cursor

\* C4: an iteration whose fetch raised a transport error makes exactly one
\* call on the bot, carrying the description of that failure, does not end
\* the loop, and sleeps for the retry period before the next fetch.
C4_TransportErrorOneAttempt ==
    /\ (IterationDone /\ iter.fetch = "transport"
           /\ raising.cls \notin Interrupts) =>
          /\ Len(iter.calls) = 1
          /\ IsFailureReport(iter.calls[1].text.dict)
          /\ iter.calls[1].text.dict.output.detail \in TransportErrors
          /\ raising = NoError
          /\ pc # "crashed"
    /\ (pc = "try" /\ prev_iter.fetch = "transport") =>
          /\ Len(prev_iter.calls) = 1
          /\ prev_iter.slept = RETRY_PERIOD

\* C5: two successive responses whose first record has the same name, status
\* reviewing and then approved, with the bot delivering what it is handed and
\* reviewing not already reported: the two iterations make exactly two calls
\* on the bot, the reviewing message and then the approved message.
ReviewingThenApproved ==
    /\ IterationDone
    /\ prev_iter.first.has_name /\ iter.first.has_name
    /\ prev_iter.first.homework_name = iter.first.homework_name
    /\ prev_iter.first.status = "reviewing"
    /\ iter.first.status = "approved"
    /\ prev_iter.reached /\ prev_iter.last # prev_iter.report
    /\ \A i \in 1 .. Len(prev_iter.calls) : prev_iter.calls[i].delivered
    /\ \A i \in 1 .. Len(iter.calls) : iter.calls[i].delivered

Credentials == {PRACTICUM_TOKEN, TELEGRAM_TOKEN, TELEGRAM_CHAT_ID}
C6_ConfigurationGate ==
    /\ (\E c \in Credentials : c \in {None, ""}) =>
          /\ pc \in {"start", "exited"}
          /\ bot = None
          /\ iter = NoIter /\ prev_iter = NoIter
          /\ last_delivered = NoValue
          /\ (pc = "exited" => exit_status # <<>> /\ exit_status # <<0>>)
    /\ ((\A c \in Credentials : c \notin {None, ""}) /\ pc # "start") =>
          /\ pc # "exited"
          /\ bot = TELEGRAM_TOKEN

C6_Witness ==
    /\ pc = "exited"
    /\ PRACTICUM_TOKEN = "secret" /\ TELEGRAM_TOKEN = "secret"
    /\ TELEGRAM_CHAT_ID = ""

\* C7: over two consecutive iterations that both receive a valid response
\* with an empty homeworks list at most one 'no new work' notification is
\* delivered, whatever current_date the server reports (a server clock that
\* does not run backwards is enough to see it).
C7_EmptyStateDedup ==
    ( /\ IterationDone
      /\ prev_iter.reached /\ iter.reached
      /\ IsNoWorkReport(prev_iter.report) /\ IsNoWorkReport(iter.report)
      /\ prev_iter.cursor <= iter.cursor /\ iter.cursor <= current_timestamp )
    => LET calls == prev_iter.calls \o iter.calls
       IN  Cardinality({ i \in 1 .. Len(calls) :
                           /\ calls[i].delivered
                           /\ IsNoWorkReport(calls[i].text.dict) }) <= 1

\* C8: every call on the bot carries a str as its text and the configured
\* chat id as its destination.
C8_PlainTextBody ==
    \A i \in 1 .. Len(iter.calls) :
        /\ iter.calls[i].text.pytype = "str"
        /\ iter.calls[i].chat_id = TELEGRAM_CHAT_ID

\* C9: prev_report is the content of the last notification the bot delivered,
\* the empty report when there was none, and an iteration without a delivery
\* leaves it as it was.
C9_ReportState ==
    /\ prev_report = last_delivered.dict
    /\ (last_delivered = NoValue => prev_report = EmptyReport)
    /\ (last_delivered # NoValue => last_delivered.pytype = "dict")
    /\ (\A i \in 1 .. Len(iter.calls) : ~iter.calls[i].delivered) =>
          prev_report = iter.last

C9_Witness ==
    /\ Len(iter.calls) = 2
    /\ ~iter.calls[1].delivered /\ iter.calls[2].delivered
    /\ prev_report = iter.calls[2].text.dict
    /\ prev_iter.calls # <<>>
    /\ iter.last # EmptyReport

\* C10: the exception of a failed fetch has the class of its failure mode:
\* ConnectionError for a transport failure, WrongAPIResponse for a non-200
\* status, and one of the repository's payload errors for a body that does
\* not decode.
C10_FetchErrorKinds ==
    pc = "except" =>
        /\ (iter.fetch = "transport" => error.cls = "ConnectionError")
        /\ (iter.fetch = "http" => error.cls = "WrongAPIResponse")
        /\ (iter.fetch = "decode" =>
               error.cls \in {"WrongAPIResponse", "ResponseIncorrect"})


\* C11: a response with a status other than 200 makes get_api_answer raise
\* WrongAPIResponse carrying that status code, whether its body decodes as
\* JSON or not; it never raises the decoder's error or returns a value.
C11_StatusBeforeDecode ==
    ( /\ call.fn = "get_api_answer"
      /\ call.outcome.raises = ""
      /\ call.outcome.status_code # 200 )
    => /\ call.exc.cls = "WrongAPIResponse"
       /\ call.exc.msg.code = call.outcome.status_code
       /\ call.payload = NoPayload

C11_Witness ==
    /\ call.fn = "get_api_answer"
    /\ call.outcome.status_code = 500
    /\ ~call.outcome.decodable
    /\ call.exc.cls = "WrongAPIResponse"

\* what check_response is to accept: a dict with both keys whose homeworks is
\* a list
WellFormed(response) ==
    /\ response.type = "dict"
    /\ response.has_homeworks /\ response.has_current_date
    /\ response.homeworks_type = "list"

MalformedPayloadClasses == {"WrongAPIResponse", "ResponseIncorrect"}

\* C12 (as stated): check_response raises the repository's payload error
\* for every response that is not a dict with both keys and a list under
\* homeworks, and returns the homeworks list otherwise.
C12_RejectsWithMalformedPayload ==
    call.fn = "check_response" =>
        IF WellFormed(call.response)
        THEN call.exc = NoError /\ call.homeworks = call.response.homeworks
        ELSE call.exc.cls \in MalformedPayloadClasses

\* C12 (amended): check_response raises for every such response, TypeError
\* when the response is not a dict or homeworks is not a list, and
\* WrongAPIResponse when a key is missing; it returns the homeworks list
\* only when the response is well formed.
C12_RejectsMalformed ==
    call.fn = "check_response" =>
        IF WellFormed(call.response)
        THEN call.exc = NoError /\ call.homeworks = call.response.homeworks
        ELSE /\ call.homeworks = <<>>
             /\ call.exc.cls =
                  IF call.response.type # "dict" THEN "TypeError"
                  ELSE IF ~call.response.has_homeworks
                          \/ ~call.response.has_current_date
                  THEN "WrongAPIResponse"
                  ELSE "TypeError"

C12_Witness ==
    /\ call.fn = "check_response"
    /\ call.response.type = "dict"
    /\ call.response.has_homeworks /\ call.response.has_current_date
    /\ call.response.homeworks_type = "dict"
    /\ call.exc.cls = "TypeError"

\* C13: check_response raises, and returns nothing, for every response that
\* has no current_date, whatever is under homeworks.
C13_MissingCurrentDateRejected ==
    ( /\ call.fn = "check_response"
      /\ ~call.response.has_current_date )
    => /\ call.exc # NoError
       /\ call.homeworks = <<>>

C13_Witness ==
    /\ call.fn = "check_response"
    /\ ~call.response.has_current_date
    /\ call.response.homeworks_type = "list"
    /\ call.response.homeworks # <<>>
    /\ call.exc.cls = "WrongAPIResponse"

\* the verdict the vocabulary gives each known status
KnownStatuses == {"approved", "reviewing", "rejected"}
ExpectedVerdict(status) ==
    CASE status = "approved" -> "Rabota proverena: revyueru vsyo ponravilos. Ura!"
      [] status = "reviewing" -> "Rabota vzyata na proverku revyuerom."
      [] status = "rejected" -> "Rabota proverena: u revyuera est zamechaniya."
      [] OTHER -> ""

\* C14 (as stated): parse_status returns the template with the name and the
\* mapped verdict for a record with a name and a known status, and raises
\* StatusNotExpected for every record whose status is outside the vocabulary.
C14_UnknownStatusAlwaysUnrecognized ==
    call.fn = "parse_status" =>
        /\ ( /\ call.homework.has_name
             /\ call.homework.status \in KnownStatuses )
           => /\ call.exc = NoError
              /\ call.text = StatusMsg(call.homework.homework_name,
                                       ExpectedVerdict(call.homework.status))
        /\ ( /\ call.homework.has_status
             /\ call.homework.status \notin KnownStatuses )
           => call.exc.cls = "StatusNotExpected"

\* C14 (amended): the same, the second part for a record that has a
\* homework_name; a record without one raises WrongAPIResponse whatever its
\* status.
C14_ParseStatus ==
    call.fn = "parse_status" =>
        /\ ( /\ call.homework.has_name
             /\ call.homework.status \in KnownStatuses )
           => /\ call.exc = NoError
              /\ call.text = StatusMsg(call.homework.homework_name,
                                       ExpectedVerdict(call.homework.status))
        /\ ( /\ call.homework.has_name
             /\ call.homework.has_status
             /\ call.homework.status \notin KnownStatuses )
           => /\ call.exc.cls = "StatusNotExpected"
              /\ call.exc.msg.detail = call.homework.status
              /\ call.text = EmptyMsg
        /\ ~call.homework.has_name => call.exc.cls = "WrongAPIResponse"

C14_Witness ==
    /\ call.fn = "parse_status"
    /\ call.homework.has_name
    /\ call.homework.status = "on_hold"
    /\ call.exc.cls = "StatusNotExpected"


\* C15: no fetch stalls the loop: requests.get never waits without end, so
\* main() is never stuck inside get_api_answer.
C15_FetchNeverStalls == pc # "blocked"

\* C16: the cursor changes only in an iteration whose response check_response
\* accepted: after a failed fetch or a rejected response the cursor is the
\* one the iteration started with.
C16_CursorOnlyAfterValidation ==
    ( /\ pc \in {"except", "finally", "crashed"}
      /\ ~iter.validated )
    => current_timestamp = iter.cursor

\* C17: when the first record of a validated, non-empty homeworks list lacks
\* homework_name or lacks status, the exception of the iteration is
\* WrongAPIResponse and no other class.
C17_MissingFieldIsMalformedPayload ==
    ( /\ pc = "except"
      /\ iter.validated
      /\ iter.first # NoHomework
      /\ (~iter.first.has_name \/ ~iter.first.has_status) )
    => error.cls = "WrongAPIResponse"

\* C18: an iteration has not slept while it fetches and notifies; every
\* iteration that another one follows, successful or failed, slept the retry
\* period exactly once, and so did one that ends the loop with an exception,
\* so a fetch starts only after the notify step and the sleep before it.
C18_OneSleepPerIteration ==
    /\ (pc \in {"try", "except", "finally", "blocked"}) => iter.slept = 0
    /\ (prev_iter # NoIter) => prev_iter.slept = 600
    /\ (pc = "try") => (iter.fetch = "" /\ iter.calls = <<>>)
    /\ (pc = "crashed" /\ raising.cls \notin Interrupts) => iter.slept = 600

C18_Witness ==
    /\ pc = "try"
    /\ prev_iter.caught = "ConnectionError"
    /\ Len(prev_iter.calls) = 1
    /\ prev_iter.slept = 600

\* C19: the except clause never catches KeyboardInterrupt or SystemExit, and
\* once one is raised in an iteration the only step left is the one that ends
\* the process: no fetch is made and no call on the bot.
C19_InterruptNotTrapped ==
    [][ /\ error'.cls \notin Interrupts
        /\ (raising.cls \in Interrupts) =>
              /\ pc' = "crashed"
              /\ iter'.fetch = iter.fetch
              /\ iter'.calls = iter.calls
              /\ last_delivered' = last_delivered ]_vars

C19_Witness ==
    /\ pc = "crashed"
    /\ raising.cls = "KeyboardInterrupt"
    /\ iter.fetch = ""
    /\ iter.slept = 600
    /\ prev_iter.calls # <<>>

\* C20: an iteration makes at most two calls on the bot and at most one of
\* them is delivered; when there are two, the first is the report of the try
\* block and failed, and the second carries the description of that failure.
C20_AtMostOneDelivery ==
    /\ Len(iter.calls) <= 2
    /\ Cardinality({ i \in 1 .. Len(iter.calls) : iter.calls[i].delivered }) <= 1
    /\ (Len(iter.calls) = 2) =>
          /\ ~iter.calls[1].delivered
          /\ ~IsFailureReport(iter.calls[1].text.dict)
          /\ iter.reached /\ iter.calls[1].text.dict = iter.report
          /\ IsFailureReport(iter.calls[2].text.dict)
          /\ iter.calls[2].text.dict.output.tmpl =
                 "Soobshchenie ne udalos otpravit"

C20_Witness ==
    /\ Len(iter.calls) = 2
    /\ iter.calls[2].delivered
    /\ IsStatusReport(iter.calls[1].text.dict)

====
